---- MODULE Spec2Model ----
(***************************************************************************)
(* Model of the ad-hoc scripts of anchor-3:                                *)
(*   check_braces.py, check_braces_detail.py,                              *)
(*   check_braces_handleMouseDown.py  -- the brace balance scanners        *)
(*   fix_ribbon.py                    -- the class-name repair pass        *)
(* A scanner run is a record (pc, i, j, balance, found_start, out); every  *)
(* statement of a script is a function on that record and one action.      *)
(* out is what the script has printed so far, one tuple per print call.    *)
(* The line numbers the scanners inline (138 in check_braces_detail.py,    *)
(* 374 and 988 in check_braces_handleMouseDown.py) are parameters here:    *)
(* trigger_line, start_line and end_line, drawn from the lines of a small  *)
(* file.  A file is a list of lines of braces, each ending in a newline.   *)
(***************************************************************************)
EXTENDS Integers, Sequences, FiniteSets

VARIABLES prog, lines, trigger_line, start_line, end_line, run,
          file, content, original, passes, rpc, idx

vars == <<prog, lines, trigger_line, start_line, end_line, run,
          file, content, original, passes, rpc, idx>>

scanVars == <<prog, lines, trigger_line, start_line, end_line, run>>
ribbonVars == <<file, content, original, passes, rpc, idx>>

----------------------------------------------------------------------------
(* Input files of the scanners.                                            *)

LB == "{"
RB == "}"
NL == "\n"

\* Bounds of the model: the number of lines of the file and the number of
\* brace characters in it.
MaxLines == 3
MaxBraces == 4

Braces == {LB, RB}

BraceStrings == UNION {[1..n -> Braces] : n \in 0..MaxBraces}

\* f.readlines(): every line keeps its line terminator, so no line is empty.
TextLines == {b \o <<NL>> : b \in BraceStrings}

\* The files of exactly k lines that hold at most b braces.
RECURSIVE FilesOf(_, _)
FilesOf(k, b) ==
    IF k = 0 THEN {<<>>}
    ELSE UNION {{Append(f, l) : f \in FilesOf(k - 1, b - (Len(l) - 1))} :
                   l \in {t \in TextLines : Len(t) - 1 <= b}}

Files == UNION {FilesOf(k, MaxBraces) : k \in 0..MaxLines}

Scripts == {"check_braces", "check_braces_detail", "check_braces_handleMouseDown"}

----------------------------------------------------------------------------
(* The state of one scan.  i and j are 0-based as in the code: i is the     *)
(* loop variable of the outer loop (first - 1 before the first iteration), *)
(* j the number of characters of lines[i] the inner loop has consumed.     *)

InitRun(first) ==
    [pc |-> "for", i |-> first - 1, j |-> 0,
     balance |-> 0, found_start |-> FALSE, out |-> <<>>]

\* A faulty variant: the second branch written as a plain else.
DeltaElse(char) ==
    IF char = LB THEN 1 ELSE 0 - 1

\* for char in line: if char == '{': balance += 1 elif char == '}': balance -= 1
Delta(char) ==
    IF char = LB THEN 1 ELSE IF char = RB THEN 0 - 1 ELSE 0

\* Where the inner loop goes after consuming character j+1 of a line.
AfterChar(r, line) ==
    IF r.j + 1 < Len(line) THEN "char" ELSE "check"

\* Entering the body of the outer loop with the next i.
EnterLine(r, line) ==
    [r EXCEPT !.i = r.i + 1, !.j = 0,
              !.pc = IF Len(line) = 0 THEN "check" ELSE "char"]

----------------------------------------------------------------------------
(* check_braces.py                                                         *)

\* for i, line in enumerate(lines):
cbFor(r, ls) ==
    IF r.i + 1 < Len(ls)
    THEN EnterLine(r, ls[r.i + 2])
    ELSE [r EXCEPT !.pc = "final"]

\* one iteration of: for char in line
cbChar(r, ls) ==
    LET line == ls[r.i + 1]
        char == line[r.j + 1]
    IN  [r EXCEPT !.balance = @ + Delta(char),
                  !.j = @ + 1,
                  !.pc = AfterChar(r, line)]

\* A faulty variant: the break left out.
cbCheckNoBreak(r, ls) ==
    IF r.balance < 0
    THEN [r EXCEPT !.out = Append(@, <<"Balance went negative at line",
                                       r.i + 1, ls[r.i + 1]>>),
                   !.pc = "for"]
    ELSE [r EXCEPT !.pc = "for"]

\* if balance < 0: print(...); break
cbCheck(r, ls) ==
    IF r.balance < 0
    THEN [r EXCEPT !.out = Append(@, <<"Balance went negative at line",
                                       r.i + 1, ls[r.i + 1]>>),
                   !.pc = "final"]
    ELSE [r EXCEPT !.pc = "for"]

\* A faulty variant: the final test written as balance > 0.
cbFinalStrict(r) ==
    IF r.balance > 0
    THEN [r EXCEPT !.out = Append(@, <<"Final balance", r.balance>>),
                   !.pc = "done"]
    ELSE [r EXCEPT !.pc = "done"]

\* if balance >= 0: print(f"Final balance: {balance}")
cbFinal(r) ==
    IF r.balance >= 0
    THEN [r EXCEPT !.out = Append(@, <<"Final balance", r.balance>>),
                   !.pc = "done"]
    ELSE [r EXCEPT !.pc = "done"]

----------------------------------------------------------------------------
(* check_braces_detail.py; trig is the line number the code compares       *)
(* i + 1 with.                                                             *)

\* for i, line in enumerate(lines):
dtFor(r, ls) ==
    IF r.i + 1 < Len(ls)
    THEN EnterLine(r, ls[r.i + 2])
    ELSE [r EXCEPT !.pc = "done"]

\* A faulty variant: the line test of the trigger left out.
dtTriggerAnyLine(r, char, trig) ==
    char = LB

\* if char == '{': ... if i + 1 == 138: found_start = True
dtTrigger(r, char, trig) ==
    char = LB /\ r.i + 1 = trig

\* A faulty variant: the balance tested for 0 before it is decremented.
dtCharTestFirst(r, ls, trig) ==
    LET line == ls[r.i + 1]
        char == line[r.j + 1]
        fs == r.found_start \/ dtTrigger(r, char, trig)
    IN  [r EXCEPT !.balance = @ + Delta(char),
                  !.found_start = fs,
                  !.out = IF char = RB /\ fs /\ r.balance = 0
                          THEN Append(@, <<"potentially closed at line",
                                           r.i + 1, line>>)
                          ELSE @,
                  !.j = @ + 1,
                  !.pc = AfterChar(r, line)]

\* one iteration of: for char in line
dtChar(r, ls, trig) ==
    LET line == ls[r.i + 1]
        char == line[r.j + 1]
        bal == r.balance + Delta(char)
        fs == r.found_start \/ dtTrigger(r, char, trig)
    IN  [r EXCEPT !.balance = bal,
                  !.found_start = fs,
                  !.out = IF char = RB /\ fs /\ bal = 0
                          THEN Append(@, <<"potentially closed at line",
                                           r.i + 1, line>>)
                          ELSE @,
                  !.j = @ + 1,
                  !.pc = AfterChar(r, line)]

\* if balance < 0: print(...); break
dtCheck(r) ==
    IF r.balance < 0
    THEN [r EXCEPT !.out = Append(@, <<"Balance negative at", r.i + 1>>),
                   !.pc = "done"]
    ELSE [r EXCEPT !.pc = "for"]

----------------------------------------------------------------------------
(* check_braces_handleMouseDown.py                                         *)

\* for i in range(start_line - 1, end_line): line = lines[i]
\* (IndexError when the file has no such line)
hmFor(r, ls, last) ==
    IF r.i + 1 < last
    THEN IF r.i + 2 <= Len(ls)
         THEN EnterLine(r, ls[r.i + 2])
         ELSE [r EXCEPT !.i = r.i + 1, !.j = 0, !.pc = "fault"]
    ELSE [r EXCEPT !.pc = "done"]

\* one iteration of: for char in line
hmChar(r, ls) ==
    LET line == ls[r.i + 1]
        char == line[r.j + 1]
        bal == r.balance + Delta(char)
        fs == r.found_start \/ char = LB
    IN  [r EXCEPT !.balance = bal,
                  !.found_start = fs,
                  !.out = IF char = RB /\ fs /\ bal = 0
                          THEN Append(@, <<"handleMouseDown closed at line",
                                           r.i + 1, line>>)
                          ELSE @,
                  !.j = @ + 1,
                  !.pc = AfterChar(r, line)]

\* if found_start and balance < 0: print(...); break
hmCheck(r) ==
    IF r.found_start /\ r.balance < 0
    THEN [r EXCEPT !.out = Append(@, <<"Balance negative at", r.i + 1>>),
                   !.pc = "done"]
    ELSE [r EXCEPT !.pc = "for"]

----------------------------------------------------------------------------
(* fix_ribbon.py.  A text is a sequence of characters.  A pattern is a      *)
(* sequence of items; re.sub replaces the leftmost non-overlapping matches. *)
(* In every pattern of the script a repetition is followed by a character  *)
(* outside its class (or ends the pattern), so the longest run is the only *)
(* one that can match and no backtracking is modelled.                     *)

\* [a-zA-Z0-9]
AlnumChars ==
    {"a", "b", "c", "d", "e", "f", "g", "h", "i", "j", "k", "l", "m",
     "n", "o", "p", "q", "r", "s", "t", "u", "v", "w", "x", "y", "z",
     "A", "B", "C", "D", "E", "F", "G", "H", "I", "J", "K", "L", "M",
     "N", "O", "P", "Q", "R", "S", "T", "U", "V", "W", "X", "Y", "Z",
     "0", "1", "2", "3", "4", "5", "6", "7", "8", "9"}

\* \w, as \b reads it
WordChars == AlnumChars \cup {"_"}

\* \s
SpaceChars == {" ", "\t", "\n", "\r", "\f"}

Lit(str) == [t |-> "lit", s |-> str]      \* the characters of str
Sp == [t |-> "sp", s |-> <<>>]            \* \s
Sps == [t |-> "sps", s |-> <<>>]          \* \s+
Word == [t |-> "word", s |-> <<>>]        \* [a-zA-Z0-9]+
Bnd == [t |-> "bnd", s |-> <<>>]          \* \b

\* A replacement is a sequence of literal texts and references to the text
\* matched by an item of the pattern (its capture group).
Txt(str) == [g |-> 0, s |-> str]
Grp(n) == [g |-> n, s |-> <<>>]

\* The position after the longest run of characters of class from position k.
RECURSIVE RunEnd(_, _, _)
RunEnd(s, k, class) ==
    IF k <= Len(s) /\ s[k] \in class THEN RunEnd(s, k + 1, class) ELSE k

IsWordAt(s, k) == k >= 1 /\ k <= Len(s) /\ s[k] \in WordChars

\* The position after item matched at position k of s; 0 when it does not match.
ItemEnd(item, s, k) ==
    CASE item.t = "lit" ->
            IF /\ k + Len(item.s) - 1 <= Len(s)
               /\ SubSeq(s, k, k + Len(item.s) - 1) = item.s
            THEN k + Len(item.s) ELSE 0
      [] item.t = "sp" ->
            IF k <= Len(s) /\ s[k] \in SpaceChars THEN k + 1 ELSE 0
      [] item.t = "sps" ->
            IF RunEnd(s, k, SpaceChars) > k THEN RunEnd(s, k, SpaceChars) ELSE 0
      [] item.t = "word" ->
            IF RunEnd(s, k, AlnumChars) > k THEN RunEnd(s, k, AlnumChars) ELSE 0
      [] item.t = "bnd" ->
            IF IsWordAt(s, k - 1) # IsWordAt(s, k) THEN k ELSE 0

\* The items n.. of pat matched at position k: the position after each item.
RECURSIVE MatchItems(_, _, _, _)
MatchItems(pat, n, s, k) ==
    IF n > Len(pat) THEN [ok |-> TRUE, cuts |-> <<>>]
    ELSE LET e == ItemEnd(pat[n], s, k)
         IN  IF e = 0 THEN [ok |-> FALSE, cuts |-> <<>>]
             ELSE LET rest == MatchItems(pat, n + 1, s, e)
                  IN  [ok |-> rest.ok, cuts |-> <<e>> \o rest.cuts]

\* The replacement text of a match at position k with the given cuts.
RECURSIVE Expand(_, _, _, _, _)
Expand(repl, n, s, k, cuts) ==
    IF n > Len(repl) THEN <<>>
    ELSE (IF repl[n].g = 0 THEN repl[n].s
          ELSE SubSeq(s, IF repl[n].g = 1 THEN k ELSE cuts[repl[n].g - 1],
                         cuts[repl[n].g] - 1))
         \o Expand(repl, n + 1, s, k, cuts)

\* re.sub(pat, repl, s) from position k on; str.replace(old, new) is the
\* case of a literal pattern and a literal replacement.
RECURSIVE SubFrom(_, _, _, _)
SubFrom(pat, repl, s, k) ==
    IF k > Len(s) THEN <<>>
    ELSE LET m == MatchItems(pat, 1, s, k)
         IN  IF m.ok
             THEN Expand(repl, 1, s, k, m.cuts)
                      \o SubFrom(pat, repl, s, m.cuts[Len(m.cuts)])
             ELSE <<s[k]>> \o SubFrom(pat, repl, s, k + 1)

Sub(pat, repl, s) == SubFrom(pat, repl, s, 1)

Hyphen == <<"-">>

\* 1. r'([a-zA-Z0-9]+)\s-\s([a-zA-Z0-9]+)' -> r'\1-\2'
Rule1Pattern == <<Word, Sp, Lit(Hyphen), Sp, Word>>
Rule1Replacement == <<Grp(1), Txt(Hyphen), Grp(5)>>

\* prefixes = ['p', 'px', 'py', 'm', ..., 'min', 'max']
Prefixes ==
    << <<"p">>,
       <<"p", "x">>,
       <<"p", "y">>,
       <<"m">>,
       <<"m", "x">>,
       <<"m", "y">>,
       <<"d", "u", "r", "a", "t", "i", "o", "n">>,
       <<"z">>,
       <<"t", "o", "p">>,
       <<"l", "e", "f", "t">>,
       <<"r", "i", "g", "h", "t">>,
       <<"b", "o", "t", "t", "o", "m">>,
       <<"g", "a", "p">>,
       <<"h">>,
       <<"w">>,
       <<"m", "i", "n">>,
       <<"m", "a", "x">> >>

\* The content.replace(old, new) calls, in order, as <<old, new>>.
Literals ==
    << << <<"p", "a", "n", "e", "l", " ", "-", " ", "b", "o", "r", "d", "e", "r">>,
          <<"p", "a", "n", "e", "l", "-", "b", "o", "r", "d", "e", "r">> >>,
       << <<"p", "a", "n", "e", "l", " ", "-", " ", "b", "g">>,
          <<"p", "a", "n", "e", "l", "-", "b", "g">> >>,
       << <<"i", "t", "e", "m", "s", " ", "-", " ", "s", "t", "r", "e", "t", "c", "h">>,
          <<"i", "t", "e", "m", "s", "-", "s", "t", "r", "e", "t", "c", "h">> >>,
       << <<"s", "e", "l", "e", "c", "t", " ", "-", " ", "n", "o", "n", "e">>,
          <<"s", "e", "l", "e", "c", "t", "-", "n", "o", "n", "e">> >>,
       << <<"t", "r", "a", "n", "s", "i", "t", "i", "o", "n", " ", "-", " ", "a", "l", "l">>,
          <<"t", "r", "a", "n", "s", "i", "t", "i", "o", "n", "-", "a", "l", "l">> >>,
       << <<"t", "r", "a", "n", "s", "i", "t", "i", "o", "n", " ", "-", " ", "c", "o", "l", "o", "r", "s">>,
          <<"t", "r", "a", "n", "s", "i", "t", "i", "o", "n", "-", "c", "o", "l", "o", "r", "s">> >>,
       << <<"t", "r", "a", "n", "s", "i", "t", "i", "o", "n", " ", "-", " ", "t", "r", "a", "n", "s", "f", "o", "r", "m">>,
          <<"t", "r", "a", "n", "s", "i", "t", "i", "o", "n", "-", "t", "r", "a", "n", "s", "f", "o", "r", "m">> >>,
       << <<"i", "t", "e", "m", "s", " ", "-", " ", "c", "e", "n", "t", "e", "r">>,
          <<"i", "t", "e", "m", "s", "-", "c", "e", "n", "t", "e", "r">> >>,
       << <<"j", "u", "s", "t", "i", "f", "y", " ", "-", " ", "c", "e", "n", "t", "e", "r">>,
          <<"j", "u", "s", "t", "i", "f", "y", "-", "c", "e", "n", "t", "e", "r">> >>,
       << <<"b", "o", "r", "d", "e", "r", " ", "-", " ", "b">>,
          <<"b", "o", "r", "d", "e", "r", "-", "b">> >>,
       << <<"b", "o", "r", "d", "e", "r", " ", "-", " ", "l">>,
          <<"b", "o", "r", "d", "e", "r", "-", "l">> >>,
       << <<"b", "o", "r", "d", "e", "r", " ", "-", " ", "r">>,
          <<"b", "o", "r", "d", "e", "r", "-", "r">> >>,
       << <<"b", "o", "r", "d", "e", "r", " ", "-", " ", "t">>,
          <<"b", "o", "r", "d", "e", "r", "-", "t">> >>,
       << <<"s", "h", "a", "d", "o", "w", " ", "-", " ", "x", "l">>,
          <<"s", "h", "a", "d", "o", "w", "-", "x", "l">> >>,
       << <<"s", "h", "a", "d", "o", "w", " ", "-", " ", "i", "n", "n", "e", "r">>,
          <<"s", "h", "a", "d", "o", "w", "-", "i", "n", "n", "e", "r">> >>,
       << <<"f", "l", "e", "x", " ", "-", " ", "c", "o", "l">>,
          <<"f", "l", "e", "x", "-", "c", "o", "l">> >>,
       << <<"f", "l", "e", "x", " ", "-", " ", "1">>,
          <<"f", "l", "e", "x", "-", "1">> >>,
       << <<"r", "o", "u", "n", "d", "e", "d", " ", "-", " ", "f", "u", "l", "l">>,
          <<"r", "o", "u", "n", "d", "e", "d", "-", "f", "u", "l", "l">> >>,
       << <<"h", "o", "v", "e", "r", ":", " ", "b", "g", " ", "-">>,
          <<"h", "o", "v", "e", "r", ":", "b", "g", "-">> >>,
       << <<"b", "g", " ", "-", " ", "w", "h", "i", "t", "e">>,
          <<"b", "g", "-", "w", "h", "i", "t", "e">> >> >>

\* 2. r'\b' + p + r'\s-\s' -> p + '-'
Rule2Pattern(p) == <<Bnd, Lit(p), Sp, Lit(Hyphen), Sp>>
Rule2Replacement(p) == <<Txt(p), Txt(Hyphen)>>

\* A faulty variant: the second group left out of the replacement.
Rule3ReplacementNoGroup == <<Grp(1), Txt(Hyphen)>>

\* 3. r'([a-zA-Z0-9]+)\s-\s(\[)' -> r'\1-\2'
Rule3Pattern == <<Word, Sp, Lit(Hyphen), Sp, Lit(<<"[">>)>>
Rule3Replacement == <<Grp(1), Txt(Hyphen), Grp(5)>>

\* 4. content.replace(old, new)
LiteralPattern(n) == <<Lit(Literals[n][1])>>
LiteralReplacement(n) == <<Txt(Literals[n][2])>>

\* r'bg-\[var\(--border\s-\scolor\)\]mx\s-\s1' -> 'bg-[var(--border-color)] mx-1'
Rule5Pattern ==
    <<Lit(<<"b", "g", "-", "[", "v", "a", "r", "(", "-", "-", "b", "o", "r", "d", "e", "r">>),
      Sp, Lit(Hyphen), Sp,
      Lit(<<"c", "o", "l", "o", "r", ")", "]", "m", "x">>),
      Sp, Lit(Hyphen), Sp, Lit(<<"1">>)>>
Rule5Replacement ==
    <<Txt(<<"b", "g", "-", "[", "v", "a", "r", "(", "-", "-", "b", "o", "r", "d", "e", "r", "-", "c", "o", "l", "o", "r", ")", "]", " ", "m", "x", "-", "1">>)>>

\* r'bg-\[var\(--border\s-\scolor\)\]' -> 'bg-[var(--border-color)]'
Rule6Pattern ==
    <<Lit(<<"b", "g", "-", "[", "v", "a", "r", "(", "-", "-", "b", "o", "r", "d", "e", "r">>),
      Sp, Lit(Hyphen), Sp,
      Lit(<<"c", "o", "l", "o", "r", ")", "]">>)>>
Rule6Replacement ==
    <<Txt(<<"b", "g", "-", "[", "v", "a", "r", "(", "-", "-", "b", "o", "r", "d", "e", "r", "-", "c", "o", "l", "o", "r", ")", "]">>)>>

\* r'hover:\s+bg\s+-\s+' -> 'hover:bg-'
Rule7Pattern ==
    <<Lit(<<"h", "o", "v", "e", "r", ":">>), Sps, Lit(<<"b", "g">>), Sps, Lit(Hyphen), Sps>>
Rule7Replacement == <<Txt(<<"h", "o", "v", "e", "r", ":", "b", "g", "-">>)>>

\* Bounds of the model: the number of tokens of an input text and the number
\* of times the script is run on the file.
MaxTokens == 3
MaxPasses == 2

Tokens ==
    {<<"p", "a", "n", "e", "l">>,
     <<"b", "g">>,
     <<"p">>,
     <<"[", "#", "3", "3", "3", "]">>}

Separators == {<<" ", "-", " ">>, <<" ">>}

RECURSIVE Texts(_)
Texts(n) ==
    IF n = 1 THEN Tokens
    ELSE {x \o sep \o tok : x \in Texts(n - 1), sep \in Separators, tok \in Tokens}

Inputs == UNION {Texts(n) : n \in 1..MaxTokens}

----------------------------------------------------------------------------
(* The scripts as a state machine: the script, its input file and its      *)
(* inlined parameters are chosen at the start; then the script runs.       *)

\* A faulty variant: the range scan started at the top of the file.
FirstIndexZero(script, first_line) == 0

\* The 0-based index the outer loop starts at: enumerate(lines) starts at 0,
\* range(start_line - 1, end_line) at start_line - 1.
FirstIndex(script, first_line) ==
    IF script = "check_braces_handleMouseDown" THEN first_line - 1 ELSE 0

\* A script that does not use a parameter leaves it at 1.
Init ==
    /\ prog \in Scripts
    /\ lines \in Files
    /\ trigger_line \in 1..MaxLines
    /\ start_line \in 1..MaxLines
    /\ end_line \in 1..MaxLines
    /\ prog # "check_braces_detail" => trigger_line = 1
    /\ prog # "check_braces_handleMouseDown" => start_line = 1 /\ end_line = 1
    /\ start_line <= end_line
    /\ run = InitRun(FirstIndex(prog, start_line))
    /\ file = <<>> /\ content = <<>> /\ original = <<>>
    /\ passes = 0 /\ rpc = "none" /\ idx = 0

Step(next) ==
    /\ run' = next
    /\ UNCHANGED <<prog, lines, trigger_line, start_line, end_line>>
    /\ UNCHANGED ribbonVars

CB_For ==
    prog = "check_braces" /\ run.pc = "for" /\ Step(cbFor(run, lines))
CB_Char ==
    prog = "check_braces" /\ run.pc = "char" /\ Step(cbChar(run, lines))
CB_Check ==
    prog = "check_braces" /\ run.pc = "check" /\ Step(cbCheck(run, lines))
CB_Final ==
    prog = "check_braces" /\ run.pc = "final" /\ Step(cbFinal(run))

DT_For ==
    prog = "check_braces_detail" /\ run.pc = "for" /\ Step(dtFor(run, lines))
DT_Char ==
    /\ prog = "check_braces_detail" /\ run.pc = "char"
    /\ Step(dtChar(run, lines, trigger_line))
DT_Check ==
    prog = "check_braces_detail" /\ run.pc = "check" /\ Step(dtCheck(run))

HM_For ==
    /\ prog = "check_braces_handleMouseDown" /\ run.pc = "for"
    /\ Step(hmFor(run, lines, end_line))
HM_Char ==
    /\ prog = "check_braces_handleMouseDown" /\ run.pc = "char"
    /\ Step(hmChar(run, lines))
HM_Check ==
    /\ prog = "check_braces_handleMouseDown" /\ run.pc = "check"
    /\ Step(hmCheck(run))

Next ==
    \/ CB_For \/ CB_Char \/ CB_Check \/ CB_Final
    \/ DT_For \/ DT_Char \/ DT_Check
    \/ HM_For \/ HM_Char \/ HM_Check

Spec == Init /\ [][Next]_vars

\* check_braces.py alone.  The script is one sequential process that is
\* never suspended, so each of its steps is eventually taken.
InitCB == Init /\ prog = "check_braces"

NextCB == CB_For \/ CB_Char \/ CB_Check \/ CB_Final

SpecCB == InitCB /\ [][NextCB]_vars /\ WF_vars(NextCB)

\* fix_ribbon.py, statement by statement: the file holds some text; a run
\* of the script reads it, applies the substitutions in order and writes
\* the result back.  The script may then be run again on the same file.
InitRibbon ==
    /\ file \in Inputs
    /\ original = file
    /\ content = <<>>
    /\ passes = 0 /\ rpc = "read" /\ idx = 0
    /\ prog = "fix_ribbon" /\ lines = <<>>
    /\ trigger_line = 1 /\ start_line = 1 /\ end_line = 1
    /\ run = InitRun(0)

Statement(from, to, text) ==
    /\ rpc = from
    /\ content' = text
    /\ rpc' = to
    /\ UNCHANGED <<file, original, passes, idx>>
    /\ UNCHANGED scanVars

\* One iteration of a loop over table; the statement after the loop is to.
Iteration(from, to, table, text) ==
    /\ rpc = from
    /\ content' = text
    /\ idx' = IF idx < Len(table) THEN idx + 1 ELSE 1
    /\ rpc' = IF idx < Len(table) THEN from ELSE to
    /\ UNCHANGED <<file, original, passes>>
    /\ UNCHANGED scanVars

\* content = f.read()
FR_Read ==
    /\ rpc = "read"
    /\ content' = file
    /\ rpc' = "rule1"
    /\ idx' = 1
    /\ UNCHANGED <<file, original, passes>>
    /\ UNCHANGED scanVars

FR_Rule1 ==
    Statement("rule1", "prefixes", Sub(Rule1Pattern, Rule1Replacement, content))

\* for p in prefixes: content = re.sub(...)
FR_Prefix ==
    Iteration("prefixes", "rule3", Prefixes,
              Sub(Rule2Pattern(Prefixes[idx]), Rule2Replacement(Prefixes[idx]),
                  content))

FR_Rule3 ==
    Statement("rule3", "literals", Sub(Rule3Pattern, Rule3Replacement, content))

\* the content.replace(...) statements, one after the other
FR_Literal ==
    Iteration("literals", "rule5", Literals,
              Sub(LiteralPattern(idx), LiteralReplacement(idx), content))

FR_Rule5 ==
    Statement("rule5", "rule6", Sub(Rule5Pattern, Rule5Replacement, content))

FR_Rule6 ==
    Statement("rule6", "rule7", Sub(Rule6Pattern, Rule6Replacement, content))

FR_Rule7 ==
    Statement("rule7", "write", Sub(Rule7Pattern, Rule7Replacement, content))

\* f.write(content)
FR_Write ==
    /\ rpc = "write"
    /\ file' = content
    /\ passes' = passes + 1
    /\ rpc' = "exit"
    /\ UNCHANGED <<content, original, idx>>
    /\ UNCHANGED scanVars

\* The script is run again.
FR_RunAgain ==
    /\ rpc = "exit"
    /\ passes < MaxPasses
    /\ rpc' = "read"
    /\ UNCHANGED <<file, content, original, passes, idx>>
    /\ UNCHANGED scanVars

NextRibbon ==
    \/ FR_Read \/ FR_Rule1 \/ FR_Prefix \/ FR_Rule3 \/ FR_Literal
    \/ FR_Rule5 \/ FR_Rule6 \/ FR_Rule7 \/ FR_Write \/ FR_RunAgain

SpecRibbon == InitRibbon /\ [][NextRibbon]_vars

----------------------------------------------------------------------------
(* A whole run of a script as a function of its input: the statements      *)
(* above, applied until the script has ended.                              *)

dtStep(r, ls, trig) ==
    CASE r.pc = "for" -> dtFor(r, ls)
      [] r.pc = "char" -> dtChar(r, ls, trig)
      [] r.pc = "check" -> dtCheck(r)
      [] OTHER -> r

RECURSIVE dtExec(_, _, _)
dtExec(r, ls, trig) ==
    IF r.pc \in {"done", "fault"} THEN r ELSE dtExec(dtStep(r, ls, trig), ls, trig)

hmStep(r, ls, last) ==
    CASE r.pc = "for" -> hmFor(r, ls, last)
      [] r.pc = "char" -> hmChar(r, ls)
      [] r.pc = "check" -> hmCheck(r)
      [] OTHER -> r

RECURSIVE hmExec(_, _, _)
hmExec(r, ls, last) ==
    IF r.pc \in {"done", "fault"} THEN r ELSE hmExec(hmStep(r, ls, last), ls, last)

\* What check_braces_detail.py prints on the file ls.
DetailOutput(ls, trig) ==
    dtExec(InitRun(FirstIndex("check_braces_detail", 1)), ls, trig).out

\* What check_braces_handleMouseDown.py prints on the file ls.
RangeOutput(ls, first_line, last_line) ==
    hmExec(InitRun(FirstIndex("check_braces_handleMouseDown", first_line)),
           ls, last_line).out

----------------------------------------------------------------------------
(* Properties of the scanners.  The balance of a text is counted here      *)
(* directly from the file, independently of the scripts.                   *)

Occurrences(seq, ch) == Cardinality({p \in 1..Len(seq) : seq[p] = ch})

Net(seq) == Occurrences(seq, LB) - Occurrences(seq, RB)

RECURSIVE NetLines(_, _, _)
NetLines(ls, from, to) ==
    IF to < from THEN 0 ELSE NetLines(ls, from, to - 1) + Net(ls[to])

\* The balance after character c of line k, counting from line from.
PrefixBalance(ls, from, k, c) ==
    NetLines(ls, from, k - 1) + Net(SubSeq(ls[k], 1, c))

Positions(ls) == {<<k, c>> : k \in 1..Len(ls), c \in 1..MaxBraces + 2} \cap
                 {q \in (1..Len(ls)) \X (1..MaxBraces + 2) : q[2] <= Len(ls[q[1]])}

Before(q1, q2) == q1[1] < q2[1] \/ (q1[1] = q2[1] /\ q1[2] <= q2[2])

\* The positions the run has consumed so far.
Scanned(q) == q[1] <= run.i \/ (q[1] = run.i + 1 /\ q[2] <= run.j)

Ended == run.pc \in {"done", "fault"}

WholeFile == prog \in {"check_braces", "check_braces_detail"}

NegativeTag ==
    IF prog = "check_braces" THEN "Balance went negative at line"
    ELSE "Balance negative at"

NegativeLines(out) ==
    {out[n][2] : n \in {m \in 1..Len(out) : out[m][1] = NegativeTag}}

ClosedTags == {"potentially closed at line", "handleMouseDown closed at line"}

ClosedAt(out, k) ==
    Cardinality({n \in 1..Len(out) : out[n][1] \in ClosedTags /\ out[n][2] = k})

\* The first line of the range-bounded scan; the other scripts start at line 1.
ScanFrom == IF prog = "check_braces_handleMouseDown" THEN start_line ELSE 1

DipLines(ls) ==
    {q[1] : q \in {p \in Positions(ls) : PrefixBalance(ls, 1, p[1], p[2]) < 0}}

FirstDipLine(ls) == CHOOSE k \in DipLines(ls) : \A m \in DipLines(ls) : k <= m

\* C1 (as claimed): in the whole-file scanners, whenever the running balance
\* is below 0 after some character, the scan ends having reported the line of
\* the first such character, and it ends on that line.
C1_NegativeReportedAtFirstDip ==
    (WholeFile /\ Ended /\ DipLines(lines) # {}) =>
        /\ NegativeLines(run.out) = {FirstDipLine(lines)}
        /\ run.i + 1 = FirstDipLine(lines)

Balanced(ls) ==
    /\ \A q \in Positions(ls) : PrefixBalance(ls, 1, q[1], q[2]) >= 0
    /\ NetLines(ls, 1, Len(ls)) = 0

\* C2: on an input whose braces are all matched and whose running balance
\* never goes below 0, check_braces.py prints "Final balance: 0" and nothing
\* else (no negative-balance message).
C2_BalancedInputFinalZero ==
    (prog = "check_braces" /\ Ended /\ Balanced(lines)) =>
        run.out = << <<"Final balance", 0>> >>

C2_Witness ==
    /\ prog = "check_braces" /\ Ended /\ Balanced(lines)
    /\ Len(lines) = 2 /\ Net(lines[1]) > 0
    /\ run.out = << <<"Final balance", 0>> >>

\* C7: in every scanner, at every point of the scan, the balance is the
\* number of '{' minus the number of '}' among the characters consumed so
\* far, counted from the first line the scanner reads.
C7_BalanceIsPrefixCount ==
    run.balance =
        NetLines(lines, ScanFrom, run.i)
        + (IF run.j > 0 THEN Net(SubSeq(lines[run.i + 1], 1, run.j)) ELSE 0)

C7_Witness ==
    /\ prog = "check_braces_handleMouseDown" /\ run.pc = "done"
    /\ start_line = 2 /\ Net(lines[1]) # 0
    /\ run.balance # 0 /\ run.j > 1

CurrentLine == lines[run.i + 1]
CurrentChar == CurrentLine[run.j + 1]

\* The trigger of check_braces_detail.py has fired at or before position q.
Triggered(q) ==
    \E p \in Positions(lines) :
        Before(p, q) /\ p[1] = trigger_line /\ lines[p[1]][p[2]] = LB

\* The closing braces that bring the balance back to 0 after the trigger.
ZeroReturns ==
    {q \in Positions(lines) :
        /\ lines[q[1]][q[2]] = RB
        /\ PrefixBalance(lines, 1, q[1], q[2]) = 0
        /\ Triggered(q)}

C3_ReportAndContinue ==
    (/\ prog = "check_braces_detail" /\ run.pc = "char"
     /\ CurrentChar = RB /\ run.found_start /\ run'.balance = 0)
    => /\ run'.out = Append(run.out, <<"potentially closed at line",
                                       run.i + 1, CurrentLine>>)
       /\ run'.pc \in {"char", "check"}
       /\ run'.i = run.i

C3_OneReportPerZeroReturn ==
    prog = "check_braces_detail" =>
        \A k \in 1..Len(lines) :
            ClosedAt(run.out, k) =
                Cardinality({q \in ZeroReturns : q[1] = k /\ Scanned(q)})

RECURSIVE Flatten(_, _)
Flatten(ls, k) == IF k = 0 THEN <<>> ELSE Flatten(ls, k - 1) \o ls[k]

IsBrace(ch) == ch \in Braces

BraceText(ls) == SelectSeq(Flatten(ls, Len(ls)), IsBrace)

LastBraceLine(ls) ==
    CHOOSE k \in 1..Len(ls) :
        /\ Len(ls[k]) > 1
        /\ \A m \in (k + 1)..Len(ls) : Len(ls[m]) = 1

\* The input "{ { } }" with the trigger fired at its first character.
C3_ExampleInput ==
    /\ prog = "check_braces_detail"
    /\ BraceText(lines) = <<LB, LB, RB, RB>>
    /\ trigger_line \in 1..Len(lines)
    /\ lines[trigger_line][1] = LB
    /\ \A m \in 1..(trigger_line - 1) : Len(lines[m]) = 1

C3_Example ==
    (C3_ExampleInput /\ Ended) =>
        run.out = << <<"potentially closed at line", LastBraceLine(lines),
                       lines[LastBraceLine(lines)]>> >>

\* C3: in check_braces_detail.py, once the trigger has fired, each closing
\* brace that brings the balance back to exactly 0 produces exactly one
\* report naming its line, and the scan goes on after the report; on the
\* input "{ { } }" with the trigger at the first character exactly one such
\* report is made, at the line of the last closing brace.
C3_ZeroReturnReported ==
    /\ [][C3_ReportAndContinue]_vars
    /\ [](C3_OneReportPerZeroReturn /\ C3_Example)

C3_Witness ==
    /\ C3_ExampleInput /\ Ended
    /\ Len(run.out) = 1 /\ run.out[1][2] = LastBraceLine(lines)

IsClosed(ev) == ev[1] \in ClosedTags

C9_TriggerCondition ==
    /\ run.pc = "char" /\ CurrentChar = LB
    /\ \/ prog = "check_braces_detail" /\ run.i + 1 = trigger_line
       \/ prog = "check_braces_handleMouseDown"
          /\ run.i + 1 \in start_line..end_line

C9_Step ==
    /\ run.found_start => run'.found_start
    /\ (~run.found_start /\ run'.found_start) => C9_TriggerCondition
    /\ (Len(SelectSeq(run'.out, IsClosed)) # Len(SelectSeq(run.out, IsClosed)))
           => run.found_start

\* C9: found_start starts false, becomes true only on an opening brace that
\* meets the trigger condition (on the trigger line in check_braces_detail.py,
\* inside the range in check_braces_handleMouseDown.py), never goes back to
\* false, and no zero-return report is made while it is false.
C9_FoundStartGatesReports ==
    /\ ~run.found_start
    /\ [][C9_Step]_vars

\* The balance has just come back to 0 on a closing brace, untracked.
C9_Witness ==
    /\ prog = "check_braces_detail" /\ run.pc = "char" /\ run.j > 0
    /\ CurrentLine[run.j] = RB /\ run.balance = 0
    /\ ~run.found_start /\ run.out = <<>>

C10_OneMessage ==
    /\ Len(run.out) = 1
    /\ \/ /\ run.out[1][1] = "Balance went negative at line"
          /\ run.out[1] = <<"Balance went negative at line", run.i + 1,
                            CurrentLine>>
          /\ run.balance < 0
       \/ /\ run.out[1] = <<"Final balance", run.balance>>
          /\ run.balance >= 0
          /\ run.i + 1 = Len(lines)

\* C10: on every input check_braces.py ends, and it ends having printed
\* exactly one message: the negative-balance message for the line the scan
\* stopped on, or "Final balance" with a value >= 0 after the last line;
\* never both, never neither.
C10_TerminatesWithOneMessage ==
    /\ <>(run.pc = "done")
    /\ [](run.pc = "done" => C10_OneMessage)
    /\ [](Len(run.out) <= 1)

\* The scan stopped on a negative balance before the last line of the file.
C10_Witness ==
    /\ prog = "check_braces" /\ run.pc = "done"
    /\ run.i + 1 < Len(lines)
    /\ Len(run.out) = 1 /\ run.out[1][1] = "Balance went negative at line"

\* The files that agree with ls on every line of first_line..last_line
\* (the same lines present, with the same text); their lines outside the
\* range hold at most one brace each.
ShortLines == {<<NL>>, <<LB, NL>>, <<RB, NL>>}

AgreeOnRange(a, b, first_line, last_line) ==
    \A k \in first_line..last_line :
        /\ k <= Len(a) <=> k <= Len(b)
        /\ k <= Len(a) => a[k] = b[k]

Twins(ls, first_line, last_line) ==
    {t \in UNION {[1..n -> ShortLines \cup {ls[k] : k \in 1..Len(ls)}] :
                    n \in 0..MaxLines} :
        /\ AgreeOnRange(ls, t, first_line, last_line)
        /\ \A k \in 1..Len(t) :
               k \notin first_line..last_line => t[k] \in ShortLines}

\* C4: the range-bounded scan depends only on the lines start_line..end_line:
\* every input that agrees with this one on each line of the range makes the
\* script print the same sequence of reports, whatever braces stand before
\* start_line or after end_line; and both end lines are scanned: a scan that
\* no negative balance stopped ends on end_line with the balance of the
\* whole range.
C4_RangeOnlyDependsOnRange ==
    (prog = "check_braces_handleMouseDown" /\ Ended) =>
        /\ \A t \in Twins(lines, start_line, end_line) :
               RangeOutput(t, start_line, end_line) = run.out
        /\ (run.pc = "done" /\ NegativeLines(run.out) = {}) =>
               /\ run.i + 1 = end_line
               /\ run.balance = NetLines(lines, start_line, end_line)

\* A range with unbalanced lines before and after it, and reports made.
C4_Witness ==
    /\ prog = "check_braces_handleMouseDown" /\ run.pc = "done"
    /\ start_line = 2 /\ Net(lines[1]) < 0
    /\ run.out # <<>>

Shift(out, offset) ==
    [n \in 1..Len(out) |-> <<out[n][1], out[n][2] + offset>>]

IsNegative(ev) == ev[1] = "Balance negative at"

\* C8 (as claimed): run on lines start_line..end_line, the range-bounded
\* variant reports a negative balance on, and stops at, exactly the line
\* where check_braces_detail.py does when those lines are its whole input.
C8_RangeNegativeAsDetail ==
    (/\ prog = "check_braces_handleMouseDown" /\ run.pc = "done"
     /\ end_line <= Len(lines)) =>
        LET slice == SubSeq(lines, start_line, end_line)
            detail == dtExec(InitRun(FirstIndex("check_braces_detail", 1)),
                             slice, trigger_line)
        IN  /\ SelectSeq(run.out, IsNegative)
                 = Shift(SelectSeq(detail.out, IsNegative), start_line - 1)
            /\ run.i = detail.i + (start_line - 1)

----------------------------------------------------------------------------
(* Properties of fix_ribbon.py.                                            *)

\* C5 (as claimed): running the script again on its own output changes
\* nothing: once a run has written the file, every later run writes the
\* same text.
C5_SecondPassChangesNothing ==
    [][passes >= 1 => file' = file]_vars

IsAlnumToken(tok) == \A n \in 1..Len(tok) : tok[n] \in AlnumChars

C6_Collapsed(left, right) ==
    original = left \o <<" ", "-", " ">> \o right
        => file = left \o <<"-">> \o right

\* C6: one run of the script turns "panel - bg" into "panel-bg" and
\* "bg - [#333]" into "bg-[#333]": a " - " between two alphanumeric tokens,
\* or between an alphanumeric token and a token that starts with '[', becomes
\* a bare hyphen and the rest of the text is unchanged.
C6_HyphenSpacingCollapsed ==
    (passes = 1 /\ rpc = "exit") =>
        /\ C6_Collapsed(<<"p", "a", "n", "e", "l">>, <<"b", "g">>)
        /\ C6_Collapsed(<<"b", "g">>, <<"[", "#", "3", "3", "3", "]">>)
        /\ \A left \in Tokens, right \in Tokens :
               (IsAlnumToken(left) /\ (IsAlnumToken(right) \/ right[1] = "["))
                   => C6_Collapsed(left, right)

C6_Witness ==
    /\ passes = 1 /\ rpc = "exit"
    /\ original = <<"b", "g", " ", "-", " ", "[", "#", "3", "3", "3", "]">>
    /\ file = <<"b", "g", "-", "[", "#", "3", "3", "3", "]">>

====
